---- MODULE Spec2Model ----
(***************************************************************************)
(* Model of the img-optimizer proxy: the per-key lock table (store), the   *)
(* HTTP handler's hit path and miss path (fetch, scratch file, cwebp,      *)
(* re-open, serve), the cache directory and the HTTP responses.            *)
(*                                                                         *)
(* Strings are sequences of one-character strings.  A file is a sequence   *)
(* of chunks; every chunk is a record of the same shape.                   *)
(***************************************************************************)
EXTENDS Integers, Sequences, FiniteSets, TLC

\* Number of requests the server handles in one behaviour.
NumReq == 2

\* Number of requests whose client goes away while the response is written.
MaxGone == 1

Requests == 1..NumReq

---------------------------------------------------------------------------
\* Strings of the requests

Slash == <<"/">>
UrlName == <<"u", "r", "l">>
WName == <<"w">>
HName == <<"h">>
QName == <<"q">>
Zero == <<"0">>
DotWebp == <<".", "w", "e", "b", "p">>

QueryPng == <<"u", "r", "l", "=", "/", "a", ".", "p", "n", "g">>
QueryWebp == <<"u", "r", "l", "=", "/", "a", ".", "w", "e", "b", "p">>

\* The request URLs the clients send: r.URL.Path and r.URL.RawQuery.
URLs ==
  { [path |-> Slash, query |-> QueryPng],
    [path |-> Slash, query |-> QueryWebp],
    [path |-> Slash \o QueryPng, query |-> <<>>] }

---------------------------------------------------------------------------
\* Pure functions of the handler

\* strings.Cut: the index of the first c in s, 0 when there is none.
IndexOf(s, c) ==
  IF \E i \in 1..Len(s) : s[i] = c
  THEN CHOOSE i \in 1..Len(s) : s[i] = c /\ \A j \in 1..(i - 1) : s[j] # c
  ELSE 0

\* r.URL.Query().Get(name): the value of the first name=value pair of the
\* raw query, the empty string when no pair has that name.
RECURSIVE QueryGet(_, _)
QueryGet(q, name) ==
  IF q = <<>> THEN <<>>
  ELSE LET a == IndexOf(q, "&")
           pair == IF a = 0 THEN q ELSE SubSeq(q, 1, a - 1)
           rest == IF a = 0 THEN <<>> ELSE SubSeq(q, a + 1, Len(q))
           e == IndexOf(pair, "=")
           k == IF e = 0 THEN pair ELSE SubSeq(pair, 1, e - 1)
           v == IF e = 0 THEN <<>> ELSE SubSeq(pair, e + 1, Len(pair))
       IN IF k = name THEN v ELSE QueryGet(rest, name)

\* filepath.Ext: the suffix starting at the last dot of the last path
\* element, the empty string when that element has no dot.
RECURSIVE ExtFrom(_, _)
ExtFrom(s, i) ==
  IF i = 0 \/ s[i] = "/" THEN <<>>
  ELSE IF s[i] = "." THEN SubSeq(s, i, Len(s))
  ELSE ExtFrom(s, i - 1)

Ext(s) == ExtFrom(s, Len(s))

\* sha1.Sum followed by hex.EncodeToString, taken as injective on the
\* byte string it is given.
Sha1Hex(bytes) == <<"sha1">> \o bytes

\* hash := sha1.Sum([]byte(r.URL.Path + r.URL.RawQuery)); filename := hex.
Filename(u) == Sha1Hex(u.path \o u.query)

\* A path of the cache directory: the file name stem and its extension.
WebpPathOf(u) == [stem |-> Filename(u), ext |-> DotWebp]

UrlQOf(u) == QueryGet(u.query, UrlName)

OrigPathOf(u) == [stem |-> Filename(u), ext |-> Ext(UrlQOf(u))]

WidthOf(u) == LET w == QueryGet(u.query, WName) IN IF w = <<>> THEN Zero ELSE w

HeightOf(u) == LET h == QueryGet(u.query, HName) IN IF h = <<>> THEN Zero ELSE h

QualityOf(u) == QueryGet(u.query, QName)

---------------------------------------------------------------------------
\* Files of the cache directory

\* The body the origin serves for an asset path: one chunk of image bytes.
ImgChunk(name) ==
  [kind |-> "img", name |-> name, src |-> <<>>, par |-> <<>>, part |-> 1]

OriginBody(urlQ) == <<ImgChunk(urlQ)>>

WebpChunk(s, par, i) ==
  [kind |-> "webp", name |-> <<>>, src |-> s, par |-> par, part |-> i]

\* What cwebp -q q -resize w h writes for the input bytes s: two chunks.
Transcode(s, par) == <<WebpChunk(s, par, 1), WebpChunk(s, par, 2)>>

\* The bytes of a hole left by a write past the end of a file.
ZeroChunk ==
  [kind |-> "zero", name |-> <<>>, src |-> <<>>, par |-> <<>>, part |-> 0]

\* An artifact put into the cache directory by someone else than the server.
OutOfBand == Transcode(OriginBody(<<"o", "o", "b">>), <<<<>>, Zero, Zero>>)

IsArtifact(data) ==
  /\ Len(data) = 2
  /\ data[1].kind = "webp"
  /\ data = Transcode(data[1].src, data[1].par)

\* The inputs cwebp decodes: an image of the origin or a WebP file.
Decodable(data) ==
  \/ Len(data) = 1 /\ data[1].kind = "img"
  \/ IsArtifact(data)

NoFile == [exists |-> FALSE, data |-> <<>>]

WebpPaths == {WebpPathOf(u) : u \in URLs}

AllPaths == WebpPaths \cup {OrigPathOf(u) : u \in {v \in URLs : UrlQOf(v) # <<>>}}

\* A write of one chunk at a (0-based) offset; a gap is filled with zeros.
WriteAt(data, o, c) ==
  [i \in 1..(IF Len(data) > o + 1 THEN Len(data) ELSE o + 1) |->
     IF i = o + 1 THEN c ELSE IF i <= Len(data) THEN data[i] ELSE ZeroChunk]

\* os.OpenFile(origPath, os.O_RDWR|os.O_CREATE, 0644): no O_TRUNC.
OpenCreate(file) == [exists |-> TRUE, data |-> file.data]

\* cwebp's fopen(out, "wb"): creates or truncates.
OpenTruncate(file) == [exists |-> TRUE, data |-> <<>>]

---------------------------------------------------------------------------
\* The lock table: sync.Map from path to *sync.RWMutex

\* No entry is id 0; an entry carries the request that allocated the mutex.
NoLock == [id |-> 0, readers |-> 0, writer |-> FALSE]

\* fc.m.Store in the place of LoadOrStore: the caller's new mutex replaces
\* the entry.
StoreAlways(mm, k, r) == [mm EXCEPT ![k] = [id |-> r, readers |-> 0, writer |-> FALSE]]

\* fc.m.LoadOrStore(path, &sync.RWMutex{}): the entry of the key if there
\* is one, else the caller's new mutex becomes the entry.
LoadOrStore(mm, k, r) == IF mm[k].id = 0 THEN [mm EXCEPT ![k].id = r] ELSE mm

CanRLock(mm, k) == ~mm[k].writer

RLock(mm, k) == [mm EXCEPT ![k].readers = @ + 1]

RUnlock(mm, k) == [mm EXCEPT ![k].readers = @ - 1]

---------------------------------------------------------------------------
\* The HTTP response of a request

\* body holds the chunks written while the handler runs; sent counts them.
\* hdr is the content-type in rw.Header(); ctSent is what hdr held when the
\* header was committed ("" when the handler had set none: net/http then
\* labels the response by sniffing its first bytes).
NoResp ==
  [committed |-> FALSE, status |-> 0, ctSent |-> "", hdr |-> "",
   body |-> <<>>, sent |-> 0, errs |-> 0, gone |-> FALSE]

\* The first write to the response: WriteHeader(200) with the headers set
\* so far.
RespCommit(rs) ==
  [rs EXCEPT !.committed = TRUE,
             !.status = IF rs.committed THEN @ ELSE 200,
             !.ctSent = IF rs.committed THEN @ ELSE rs.hdr]

\* A write that counts the chunk and delivers nothing of it.
RespWriteDrops(rs, c) == [RespCommit(rs) EXCEPT !.sent = @ + 1]

\* rw.Write(chunk): the first write commits status 200 and the headers.
RespWrite(rs, c) == [RespCommit(rs) EXCEPT !.body = Append(@, c), !.sent = @ + 1]

\* rw.Header().Add("content-type", "image/webp")
RespHeaderAdd(rs) == [rs EXCEPT !.hdr = "image/webp"]

\* http.Error(rw, msg, code): content type, WriteHeader(code), the message.
RespError(rs, code) ==
  [rs EXCEPT !.committed = TRUE,
             !.status = IF rs.committed THEN @ ELSE code,
             !.ctSent = IF rs.committed THEN @ ELSE "text/plain",
             !.hdr = "text/plain",
             !.errs = @ + 1]

\* A write to the response that fails: WriteHeader(200) with the headers
\* set so far, and the connection is found broken.
RespWriteFails(rs) == [RespCommit(rs) EXCEPT !.gone = TRUE]

\* The handler returns: the server commits a response not yet committed
\* and ends it; the bytes are with the client, only their count is kept.
RespFinish(rs) == [RespCommit(rs) EXCEPT !.body = <<>>, !.hdr = ""]

---------------------------------------------------------------------------
\* State

VARIABLES
  pc,    \* where each request's handler is
  url,   \* the URL of each request
  fs,    \* the cache directory: path -> file
  m,     \* store.m: path -> lock
  off,   \* the offset of the request's open file (read or write)
  src,   \* the input bytes the request's cwebp has read
  resp,  \* the response of each request
  hist   \* what each request has done so far, and the mutexes it got

vars == <<pc, url, fs, m, off, src, resp, hist>>

NoURL == [path |-> <<>>, query |-> <<>>]

NoHist ==
  [fetches |-> 0, xforms |-> 0, wrote |-> {}, lookup |-> "none",
   failed |-> "none", served |-> "none", lockGet |-> 0, lockSet |-> 0]

\* The cache directory at startup (prepareCacheDir keeps an existing
\* directory): empty, or holding an artifact that was put at the cache path
\* of the first URL before.
OutOfBandPath == WebpPathOf([path |-> Slash, query |-> QueryPng])

InitialDirs ==
  { [p \in AllPaths |-> NoFile],
    [p \in AllPaths |-> IF p = OutOfBandPath
                        THEN [exists |-> TRUE, data |-> OutOfBand] ELSE NoFile] }

Init ==
  /\ pc = [r \in Requests |-> "idle"]
  /\ url = [r \in Requests |-> NoURL]
  /\ fs \in InitialDirs
  /\ m = [k \in WebpPaths |-> NoLock]
  /\ off = [r \in Requests |-> 0]
  /\ src = [r \in Requests |-> <<>>]
  /\ resp = [r \in Requests |-> NoResp]
  /\ hist = [r \in Requests |-> NoHist]

webpPath(r) == WebpPathOf(url[r])
origPath(r) == OrigPathOf(url[r])
urlQ(r) == UrlQOf(url[r])
Params(r) == <<QualityOf(url[r]), WidthOf(url[r]), HeightOf(url[r])>>

\* A handler without the check of the url parameter.
UrlNeverEmpty(u) == FALSE

\* if urlQ == "" { http.Error(..., http.StatusBadRequest); return }
UrlEmpty(u) == UrlQOf(u) = <<>>

\* The miss path up to client.Get: the url check, then the fetch starts.
MissPc(r) == IF UrlEmpty(url[r]) THEN "done" ELSE "fetching"

MissResp(rs, r) ==
  IF UrlEmpty(url[r]) THEN RespFinish(RespError(rs, 400)) ELSE rs

MissHist(h, r) ==
  IF UrlEmpty(url[r]) THEN [h EXCEPT !.failed = "url"]
  ELSE [h EXCEPT !.fetches = @ + 1]

---------------------------------------------------------------------------
\* The handler, step by step

\* The handler returns: its open files are closed, its cwebp is gone.
Return(r) ==
  /\ pc' = [pc EXCEPT ![r] = "done"]
  /\ off' = [off EXCEPT ![r] = 0]
  /\ src' = [src EXCEPT ![r] = <<>>]

\* The handler goes to position p.
Goto(r, p) ==
  /\ pc' = [pc EXCEPT ![r] = p]
  /\ off' = [off EXCEPT ![r] = 0]
  /\ src' = [src EXCEPT ![r] = <<>>]

\* After the error is written the handler starts over with client.Get.
RetryAfter500(r, rs, what) ==
  /\ Goto(r, "fetching")
  /\ resp' = [resp EXCEPT ![r] = RespError(rs, 500)]
  /\ hist' = [hist EXCEPT ![r].failed = what, ![r].fetches = @ + 1]

\* http.Error(rw, err.Error(), http.StatusInternalServerError); return
Fail500(r, rs, what) ==
  /\ Return(r)
  /\ resp' = [resp EXCEPT ![r] = RespFinish(RespError(rs, 500))]
  /\ hist' = [hist EXCEPT ![r].failed = what]

\* The miss path up to client.Get (lines 137-161): without url the
\* request ends with 400, else client.Get is called.
Miss(r, rs, h) ==
  /\ Goto(r, MissPc(r))
  /\ resp' = [resp EXCEPT ![r] = MissResp(rs, r)]
  /\ hist' = [hist EXCEPT ![r] = MissHist(h, r)]

\* A request arrives; the handler computes the paths and enters cache.get:
\* LoadOrStore and RLock.  Requests arrive in the order of their numbers.
Arrive(r) ==
  /\ pc[r] = "idle"
  /\ \A q \in Requests : q < r => pc[q] # "idle"
  /\ \E u \in URLs :
       /\ url' = [url EXCEPT ![r] = u]
       /\ CanRLock(LoadOrStore(m, WebpPathOf(u), r), WebpPathOf(u))
       /\ m' = RLock(LoadOrStore(m, WebpPathOf(u), r), WebpPathOf(u))
       /\ hist' = [hist EXCEPT ![r].lockGet =
                     LoadOrStore(m, WebpPathOf(u), r)[WebpPathOf(u)].id]
  /\ pc' = [pc EXCEPT ![r] = "get"]
  /\ UNCHANGED <<fs, off, src, resp>>

\* cache.get: os.Stat, os.Open, the deferred RUnlock; then the handler
\* serves the hit or goes down the miss path.
GetStatOpen(r) ==
  /\ pc[r] = "get"
  /\ m' = RUnlock(m, webpPath(r))
  /\ \E openOK \in BOOLEAN :
       IF fs[webpPath(r)].exists /\ openOK
       THEN /\ Goto(r, "serveCached")
            /\ hist' = [hist EXCEPT ![r].lookup = "hit"]
            /\ resp' = resp
       ELSE Miss(r, resp[r], [hist[r] EXCEPT !.lookup = "miss"])
  /\ UNCHANGED <<url, fs>>

Serving(r) == pc[r] \in {"serveCached", "serveFresh"}

\* writeWebp's io.Copy: one chunk is read from the open file and written
\* to the response.
ServeRead(r) ==
  /\ Serving(r)
  /\ ~resp[r].gone
  /\ off[r] < Len(fs[webpPath(r)].data)
  /\ resp' = [resp EXCEPT ![r] = RespWrite(@, fs[webpPath(r)].data[off[r] + 1])]
  /\ off' = [off EXCEPT ![r] = @ + 1]
  /\ UNCHANGED <<pc, url, fs, m, src, hist>>

\* A handler that goes on after a served hit.
NeverReturnsAfterHit == FALSE

\* if err := writeWebp(rw, r); err != nil { warn } else { return }
ReturnsAfterHit == TRUE

\* io.Copy meets the end of the file: writeWebp adds the header and
\* returns nil, and the handler returns.
ServeEOF(r) ==
  /\ Serving(r)
  /\ off[r] >= Len(fs[webpPath(r)].data)
  /\ LET rs == RespHeaderAdd(resp[r])
         h == [hist[r] EXCEPT !.served =
                 IF pc[r] = "serveCached" THEN "cached" ELSE "fresh"]
     IN IF pc[r] = "serveCached" /\ ~ReturnsAfterHit
        THEN Miss(r, rs, h)
        ELSE /\ Return(r)
             /\ resp' = [resp EXCEPT ![r] = RespFinish(rs)]
             /\ hist' = [hist EXCEPT ![r] = h]
  /\ UNCHANGED <<url, fs, m>>

\* io.Copy fails at a write to the response: the client has gone away
\* after it received a part of the body.  The chunk of the failing write
\* is not delivered, and every later write to this response fails too, the
\* first of them committing the status line if none was sent.  A hit is
\* logged and falls through to the miss path, a fresh artifact ends with 500.
ServeFail(r) ==
  /\ Serving(r)
  /\ off[r] < Len(fs[webpPath(r)].data)
  /\ \/ resp[r].gone
     \/ /\ resp[r].sent > 0
        /\ Cardinality({q \in Requests : resp[q].gone}) < MaxGone
  /\ IF pc[r] = "serveCached"
     THEN Miss(r, RespWriteFails(resp[r]), hist[r])
     ELSE Fail500(r, RespWriteFails(resp[r]), "serve")
  /\ UNCHANGED <<url, fs, m>>

\* A handler that goes on to os.OpenFile after a failed client.Get.
GoesOnAfterGetError == FALSE

\* if err != nil { erro.Printf; http.Error(..., 500); return } after client.Get
ReturnsOnGetError == TRUE

\* client.Get returns an error: no response, timeout, connection refused.
FetchError(r) ==
  /\ pc[r] = "fetching"
  /\ IF ReturnsOnGetError
     THEN /\ Fail500(r, resp[r], "get")
          /\ fs' = fs
     ELSE /\ Goto(r, "copying")
          /\ fs' = [fs EXCEPT ![origPath(r)] = OpenCreate(@)]
          /\ resp' = [resp EXCEPT ![r] = RespError(@, 500)]
          /\ hist' = [hist EXCEPT ![r].failed = "get",
                                  ![r].wrote = @ \cup {origPath(r)}]
  /\ UNCHANGED <<url, m>>

\* client.Get returns a response; the handler opens the scratch file.
FetchResponse(r) ==
  /\ pc[r] = "fetching"
  /\ \E openOK \in BOOLEAN :
       IF openOK
       THEN /\ Goto(r, "copying")
            /\ fs' = [fs EXCEPT ![origPath(r)] = OpenCreate(@)]
            /\ hist' = [hist EXCEPT ![r].wrote = @ \cup {origPath(r)}]
            /\ resp' = resp
       ELSE /\ Fail500(r, resp[r], "create")
            /\ fs' = fs
  /\ UNCHANGED <<url, m>>

\* m.RLock() in store.set
SetLock(mm, k) == RLock(mm, k)

\* m.Lock() in the place of m.RLock(): waits until no one holds the mutex.
SetWaitsForHolders(mm, k) == ~mm[k].writer /\ mm[k].readers = 0

SetCanLock(mm, k) == CanRLock(mm, k)

\* store.set without its deferred m.RUnlock().
SetKeepsLock(mm, k) == mm

\* m.RUnlock() deferred in store.set
SetUnlock(mm, k) == RUnlock(mm, k)

\* io.Copy(origFile, res.Body) writes the body and origFile is closed;
\* then cache.set: LoadOrStore, RLock, and f() starts cwebp.
CopyBody(r) ==
  /\ pc[r] = "copying"
  /\ fs' = [fs EXCEPT ![origPath(r)].data = WriteAt(@, off[r], OriginBody(urlQ(r))[1])]
  /\ SetCanLock(LoadOrStore(m, webpPath(r), r), webpPath(r))
  /\ m' = SetLock(LoadOrStore(m, webpPath(r), r), webpPath(r))
  /\ Goto(r, "cwebpRead")
  /\ hist' = [hist EXCEPT ![r].xforms = @ + 1,
                          ![r].lockSet = LoadOrStore(m, webpPath(r), r)[webpPath(r)].id]
  /\ UNCHANGED <<url, resp>>

\* io.Copy(origFile, res.Body) fails: the body stops, the client timeout
\* of 3 s passes while the body is read.
CopyError(r) ==
  /\ pc[r] = "copying"
  /\ Fail500(r, resp[r], "copy")
  /\ UNCHANGED <<url, fs, m>>

\* cwebp reads its input file origPath.
CwebpRead(r) ==
  /\ pc[r] = "cwebpRead"
  /\ Decodable(fs[origPath(r)].data)
  /\ src' = [src EXCEPT ![r] = fs[origPath(r)].data]
  /\ pc' = [pc EXCEPT ![r] = "cwebpOpen"]
  /\ UNCHANGED <<url, fs, m, off, resp, hist>>

\* cwebp opens its output file webpPath for writing.
CwebpOpenOut(r) ==
  /\ pc[r] = "cwebpOpen"
  /\ fs' = [fs EXCEPT ![webpPath(r)] = OpenTruncate(@)]
  /\ hist' = [hist EXCEPT ![r].wrote = @ \cup {webpPath(r)}]
  /\ pc' = [pc EXCEPT ![r] = "cwebpWrite"]
  /\ UNCHANGED <<url, m, off, src, resp>>

\* cwebp writes the next chunk of the encoded picture.
CwebpWrite(r) ==
  /\ pc[r] = "cwebpWrite"
  /\ off[r] < Len(Transcode(src[r], Params(r)))
  /\ fs' = [fs EXCEPT ![webpPath(r)].data =
              WriteAt(@, off[r], Transcode(src[r], Params(r))[off[r] + 1])]
  /\ off' = [off EXCEPT ![r] = @ + 1]
  /\ UNCHANGED <<pc, url, m, src, resp, hist>>

InCwebp(r) == pc[r] \in {"cwebpRead", "cwebpOpen", "cwebpWrite"}

\* CombinedOutput returning while cwebp is still at work.
CwebpNotAwaited(r) == TRUE

\* CombinedOutput returns when cwebp has exited: all its output is written.
CwebpDone(r) == off[r] = Len(Transcode(src[r], Params(r)))

\* cwebp exits with 0: f() returns nil, store.set unlocks and returns nil;
\* then webpFile, err := os.Open(webpPath).
CwebpExit(r) ==
  /\ pc[r] = "cwebpWrite"
  /\ CwebpDone(r)
  /\ m' = SetUnlock(m, webpPath(r))
  /\ \E openOK \in BOOLEAN :
       IF fs[webpPath(r)].exists /\ openOK
       THEN /\ Goto(r, "serveFresh")
            /\ UNCHANGED <<resp, hist>>
       ELSE Fail500(r, resp[r], "reopen")
  /\ UNCHANGED <<url, fs>>

\* cwebp exits with an error or is killed when the 5 s of its context have
\* passed: f() returns the error, store.set unlocks, the handler answers 500.
CwebpFail(r) ==
  /\ InCwebp(r)
  /\ m' = SetUnlock(m, webpPath(r))
  /\ Fail500(r, resp[r], "cwebp")
  /\ UNCHANGED <<url, fs>>

Next ==
  \E r \in Requests :
    \/ Arrive(r)
    \/ GetStatOpen(r)
    \/ ServeRead(r)
    \/ ServeEOF(r)
    \/ ServeFail(r)
    \/ FetchError(r)
    \/ FetchResponse(r)
    \/ CopyBody(r)
    \/ CopyError(r)
    \/ CwebpRead(r)
    \/ CwebpOpenOut(r)
    \/ CwebpWrite(r)
    \/ CwebpExit(r)
    \/ CwebpFail(r)

Spec == Init /\ [][Next]_vars

\* The steps of the handler of a request that has arrived.
Step(r) ==
  \/ CwebpFail(r)
  \/ CopyError(r)
  \/ FetchError(r)
  \/ GetStatOpen(r)
  \/ ServeEOF(r)
  \/ ServeFail(r)
  \/ ServeRead(r)
  \/ FetchResponse(r)
  \/ CopyBody(r)
  \/ CwebpRead(r)
  \/ CwebpOpenOut(r)
  \/ CwebpWrite(r)
  \/ CwebpExit(r)

\* The server starts on an empty cache directory.
FairInit == Init /\ fs = [p \in AllPaths |-> NoFile]

\* A handler goroutine that can take a step is run: client.Get ends within
\* its 3 s timeout, cwebp within the 5 s of its context, and a write to the
\* client goes through or fails.
FairSpec ==
  FairInit /\ [][Next]_vars /\ WF_vars(\E r \in Requests : Step(r))

---------------------------------------------------------------------------
\* Properties

Arrived(r) == pc[r] # "idle"

Done(r) == pc[r] = "done"

SameKey(r, q) == Arrived(r) /\ Arrived(q) /\ webpPath(r) = webpPath(q)

\* The requests that hold a share of their key's lock.
HoldsLock(r) == pc[r] = "get" \/ InCwebp(r)

\* C1: for concurrent requests of one cache key there are never two origin
\* fetches in flight nor two cwebp runs in flight, and the requests of one
\* key fetch at most once and run cwebp at most once between them.
C1_SingleFlight ==
  \A r, q \in Requests :
    (r # q /\ SameKey(r, q)) =>
      /\ ~(pc[r] = "fetching" /\ pc[q] = "fetching")
      /\ ~(InCwebp(r) /\ InCwebp(q))
      /\ hist[r].fetches + hist[q].fetches <= 1
      /\ hist[r].xforms + hist[q].xforms <= 1

\* C2: a request that has an entry of the cache open for reading (its
\* scratch file is another file) reads a complete artifact, and no cwebp
\* of another request has that path open for writing meanwhile.
C2_NoPartialRead ==
  \A r \in Requests :
    (Serving(r) /\ origPath(r) # webpPath(r)) =>
      /\ IsArtifact(fs[webpPath(r)].data)
      /\ \A q \in Requests :
           (q # r /\ SameKey(r, q)) => pc[q] # "cwebpWrite"

C4_ConcurrentFirstTime ==
  \A r, q \in Requests :
    ( /\ r # q
      /\ url[r] = url[q]
      /\ Done(r) /\ Done(q)
      /\ hist[r].lookup = "miss" /\ hist[q].lookup = "miss"
      /\ hist[r].served = "fresh" /\ hist[q].served = "fresh"
      /\ \A x \in Requests : SameKey(x, r) => Done(x) ) =>
      fs[webpPath(r)].data = Transcode(OriginBody(urlQ(r)), Params(r))

\* C5: a request that has a cache entry open for reading holds the lock of
\* its key.
C5_ReadsUnderLock ==
  \A r \in Requests : Serving(r) => HoldsLock(r)

\* C6: a response that has delivered artifact bytes was committed with the
\* header content-type: image/webp.
C6_ContentType ==
  \A r \in Requests : resp[r].sent > 0 => resp[r].ctSent = "image/webp"

\* C7 as stated: a request without url parameter (whose client stays)
\* ends with status 400, has written no file and has called client.Get
\* never.
C7_NoUrlIs400 ==
  \A r \in Requests :
    (Arrived(r) /\ UrlQOf(url[r]) = <<>> /\ ~resp[r].gone) =>
      /\ hist[r].fetches = 0
      /\ hist[r].wrote = {}
      /\ Done(r) => resp[r].status = 400

\* C7 as amended: a request without url parameter writes no file, calls
\* client.Get never and runs cwebp never; it ends with status 400 when its
\* cache lookup misses, and with status 200 when the lookup finds a file at
\* its cache path.
C7_NoUrlNoWork ==
  \A r \in Requests :
    (Arrived(r) /\ UrlQOf(url[r]) = <<>>) =>
      /\ hist[r].fetches = 0
      /\ hist[r].xforms = 0
      /\ hist[r].wrote = {}
      /\ pc[r] \in {"get", "serveCached", "done"}
      /\ Done(r) => resp[r].status = IF hist[r].lookup = "miss" THEN 400 ELSE 200

\* A request without url parameter has ended with 400.
C7_Witness ==
  \E r \in Requests :
    /\ Done(r)
    /\ UrlQOf(url[r]) = <<>>
    /\ hist[r].failed = "url"
    /\ resp[r].status = 400

\* C8: after cwebp failed for a request (scratch path and cache path
\* different, the lookup a miss), the response is a 500, the scratch file
\* exists, and the cache path this request alone has written is empty.
C8_TransformFailure ==
  \A r \in Requests :
    (hist[r].failed = "cwebp" /\ hist[r].lookup = "miss"
       /\ origPath(r) # webpPath(r)) =>
      /\ resp[r].status = 500
      /\ fs[origPath(r)].exists
      /\ ( /\ webpPath(r) \in hist[r].wrote
           /\ \A q \in Requests : (q # r /\ Arrived(q)) => webpPath(r) \notin hist[q].wrote )
         => fs[webpPath(r)].data = <<>>

\* C9 as stated: a fetch that fails in transport (client.Get returns an
\* error, or the body stops while it is copied) gives a 500 and the
\* request has written no file.
C9_FetchFailureWritesNothing ==
  \A r \in Requests :
    (hist[r].failed \in {"get", "copy"} /\ hist[r].lookup = "miss") =>
      /\ resp[r].status = 500
      /\ hist[r].wrote = {}

\* C9 as amended: when client.Get returns an error the request ends with
\* http.Error 500 and has written no file; when the body stops while it is
\* copied the request ends with http.Error 500 too, the scratch file
\* exists and is the one file the request has written.  The status line is
\* 500 unless a failed write of a cache hit has committed 200 before.
C9_GetErrorWritesNothing ==
  \A r \in Requests :
    /\ hist[r].failed = "get" =>
         /\ Done(r)
         /\ resp[r].status = IF resp[r].gone THEN 200 ELSE 500
         /\ resp[r].errs = 1
         /\ hist[r].wrote = {}
         /\ hist[r].xforms = 0
    /\ hist[r].failed = "copy" =>
         /\ Done(r)
         /\ resp[r].status = IF resp[r].gone THEN 200 ELSE 500
         /\ hist[r].wrote = {origPath(r)}
         /\ fs[origPath(r)].exists
         /\ hist[r].xforms = 0

\* client.Get has failed for a request that missed the cache.
C9_Witness ==
  \E r \in Requests :
    /\ hist[r].failed = "get"
    /\ hist[r].lookup = "miss"
    /\ resp[r].status = 500
    /\ hist[r].fetches = 1

\* C10: two requests have the same file name stem exactly when they have
\* the same path and the same raw query.
C10_KeyInjective ==
  \A r, q \in Requests :
    (Arrived(r) /\ Arrived(q)) =>
      (Filename(url[r]) = Filename(url[q]) <=> url[r] = url[q])

\* C11: every call of store.get and store.set for a key got the one mutex
\* that is the key's entry in the lock table now: the entry was never
\* replaced nor removed, and all callers of a key share one mutex.
C11_OneLockPerKey ==
  \A r \in Requests :
    /\ Arrived(r) =>
         /\ m[webpPath(r)].id # 0
         /\ hist[r].lockGet = m[webpPath(r)].id
    /\ hist[r].xforms > 0 => hist[r].lockSet = m[webpPath(r)].id
    /\ \A q \in Requests :
         SameKey(r, q) => hist[r].lockGet = hist[q].lockGet

\* Two requests are in store.get for the same new key at once, and the
\* second got the mutex the first one stored.
C11_Witness ==
  \E r, q \in Requests :
    /\ r # q
    /\ pc[r] = "get" /\ pc[q] = "get"
    /\ webpPath(r) = webpPath(q)
    /\ ~fs[webpPath(r)].exists
    /\ hist[q].lockGet = r
    /\ m[webpPath(r)].readers = 2

\* C12: the holder count of a key's lock is the number of store.get and
\* store.set calls running for the key: a call that has returned, by
\* whatever exit, holds no share.
C12_LockReleased ==
  \A k \in WebpPaths :
    m[k].readers = Cardinality({r \in Requests : HoldsLock(r) /\ webpPath(r) = k})

\* A store.set whose callback failed has returned after a store.get that
\* found no file, and the key's lock has no holder.
C12_Witness ==
  \E r \in Requests :
    /\ Done(r)
    /\ hist[r].lookup = "miss"
    /\ hist[r].failed = "cwebp"
    /\ m[webpPath(r)].id # 0
    /\ m[webpPath(r)].readers = 0

\* C13: while the cwebp of a request runs on a scratch file that is no
\* cache entry, the file holds the body the request fetched, no other
\* request has it open for writing, and no other cwebp writes to it.
C13_ScratchExclusive ==
  \A r \in Requests :
    (InCwebp(r) /\ origPath(r) # webpPath(r)) =>
      /\ fs[origPath(r)].data = OriginBody(urlQ(r))
      /\ \A q \in Requests :
           (q # r /\ Arrived(q) /\ ~UrlEmpty(url[q])) =>
             /\ ~(pc[q] = "copying" /\ origPath(q) = origPath(r))
             /\ ~(pc[q] = "cwebpWrite" /\ webpPath(q) = origPath(r))

\* The requests that have created, truncated or written the file at path p.
Writers(p) == {q \in Requests : p \in hist[q].wrote}

\* C14: a request that is served the artifact put at its cache path out of
\* band, no request ever writing that path and the client staying, is sent
\* the bytes of the file in their order and nothing else, with status 200
\* and no error.
C14_OutOfBandRoundTrip ==
  \A r \in Requests :
    (hist[r].lookup = "hit" /\ Writers(webpPath(r)) = {} /\ ~resp[r].gone) =>
      /\ fs[webpPath(r)].data = OutOfBand
      /\ pc[r] \in {"serveCached", "done"}
      /\ resp[r].errs = 0
      /\ pc[r] = "serveCached" =>
           /\ resp[r].sent = off[r]
           /\ resp[r].body = SubSeq(OutOfBand, 1, off[r])
           /\ resp[r].committed => resp[r].status = 200
      /\ Done(r) =>
           /\ resp[r].status = 200
           /\ resp[r].sent = Len(OutOfBand)
           /\ hist[r].served = "cached"

\* The last chunk of the out-of-band artifact has been written to the
\* response: the body is the whole file.
C14_Witness ==
  \E r \in Requests :
    /\ pc[r] = "serveCached"
    /\ Writers(webpPath(r)) = {}
    /\ off[r] = Len(OutOfBand)
    /\ resp[r].body = OutOfBand
    /\ resp[r].status = 200

\* C15: in every step of a request that starts its cwebp the request comes
\* from copying the one response it fetched and leaves the body in its
\* closed scratch file; in every step that opens the fresh artifact for
\* serving the request's cwebp has written all its output and exited, and
\* store.set gives up its share of the lock in that step.
C15_StepsInOrder ==
  [][\A r \in Requests :
       /\ (pc'[r] = "cwebpRead" /\ pc[r] # "cwebpRead") =>
            /\ pc[r] = "copying"
            /\ hist[r].fetches = 1
            /\ hist[r].xforms = 0
            /\ origPath(r) \in hist[r].wrote
            /\ fs'[origPath(r)].data[1] = OriginBody(urlQ(r))[1]
            /\ off'[r] = 0
       /\ (pc'[r] = "serveFresh" /\ pc[r] # "serveFresh") =>
            /\ pc[r] = "cwebpWrite"
            /\ off[r] = Len(Transcode(src[r], Params(r)))
            /\ hist[r].xforms = 1
            /\ hist[r].failed = "none"
            /\ webpPath(r) \in hist[r].wrote
            /\ m'[webpPath(r)].readers = m[webpPath(r)].readers - 1]_vars

\* A request has been served the artifact it made, after one fetch and
\* one transform.
C15_Witness ==
  \E r \in Requests :
    /\ Done(r)
    /\ hist[r].served = "fresh"
    /\ hist[r].fetches = 1
    /\ hist[r].xforms = 1
    /\ resp[r].sent = 2

\* C16: a request calls client.Get at most once and runs cwebp at most
\* once; a request whose fetch (client.Get, the copy of the body) or whose
\* cwebp failed has returned with one error written, its fetch and
\* transform counts being those of the step that failed.
C16_NoRetry ==
  \A r \in Requests :
    /\ hist[r].fetches <= 1
    /\ hist[r].xforms <= 1
    /\ hist[r].xforms <= hist[r].fetches
    /\ hist[r].failed \in {"get", "copy", "cwebp"} =>
         /\ Done(r)
         /\ resp[r].errs = 1
         /\ resp[r].status = IF resp[r].gone THEN 200 ELSE 500
         /\ hist[r].served = "none"
         /\ hist[r].fetches = 1
         /\ hist[r].xforms = IF hist[r].failed = "cwebp" THEN 1 ELSE 0

\* One request's cwebp has failed and another one's client.Get: both have
\* ended with 500.
C16_Witness ==
  \E r, q \in Requests :
    /\ Done(r) /\ hist[r].failed = "cwebp" /\ resp[r].status = 500
    /\ hist[r].xforms = 1
    /\ Done(q) /\ hist[q].failed = "get" /\ resp[q].status = 500
    /\ hist[q].xforms = 0

\* C17: the scratch file a request has opened for its fetch is at no
\* cache entry path, and the input file of a cwebp is not its output file.
C17_ScratchIsNoCachePath ==
  \A r \in Requests :
    /\ pc[r] = "copying" => origPath(r) \notin WebpPaths
    /\ InCwebp(r) => origPath(r) # webpPath(r)

\* C18: a request that has written artifact bytes to its response has
\* written no error to it, and if the bytes were those of a cache hit it
\* has not gone down the miss path: no fetch, no transform.
C18_OneOutcome ==
  \A r \in Requests :
    resp[r].sent > 0 =>
      /\ resp[r].errs = 0
      /\ hist[r].lookup = "hit" =>
           /\ pc[r] \in {"serveCached", "done"}
           /\ hist[r].fetches = 0
           /\ hist[r].xforms = 0

\* C19: no one ever holds a lock in exclusive mode, so the RLock of a
\* store.get for any key and the RLock of the store.set of a request that
\* has copied its body never wait; when all requests that have arrived
\* have returned no lock has a holder; and from some time on every request
\* that has arrived has returned.
C19_NoBlockingTermination ==
  /\ [](\A r \in Requests :
          /\ \A k \in WebpPaths :
               ~m[k].writer /\ CanRLock(LoadOrStore(m, k, r), k)
          /\ pc[r] = "copying" =>
               SetCanLock(LoadOrStore(m, webpPath(r), r), webpPath(r))
          /\ (\A q \in Requests : Arrived(q) => Done(q)) =>
               \A k \in WebpPaths : m[k].readers = 0)
  /\ <>[](\A r \in Requests : pc[r] \in {"idle", "done"})

\* All requests have returned, one after its cwebp ran while another
\* request held the same lock, and no lock has a holder.
C19_Witness ==
  /\ \A r \in Requests : Done(r)
  /\ \E r, q \in Requests :
       /\ r # q
       /\ webpPath(r) = webpPath(q)
       /\ hist[r].xforms = 1 /\ hist[q].xforms = 1
  /\ \A k \in WebpPaths : m[k].readers = 0

====
